---- MODULE Spec2Model ----
(***************************************************************************)
(* The todo backend: five Express handlers (src/routes/tasks.ts) over one  *)
(* Mongoose model (src/models/Task.ts).  A handler runs synchronously up   *)
(* to its single `await` of a store call, the store call settles (it       *)
(* resolves, or it rejects), and the handler resumes and answers.          *)
(*                                                                         *)
(* The store calls are Mongoose's (version 6 or later: a key whose value   *)
(* is undefined is removed from an update, findByIdAndUpdate runs no       *)
(* validators and does not upsert unless asked to).                        *)
(***************************************************************************)
EXTENDS Integers, FiniteSets, Sequences, TLC

\* ------------------------------------------------------------------ bounds
MaxTasks == 2
MaxReq == 2

\* ------------------------------------------------------------- JSON values
\* A JSON/JavaScript value as the handlers see it: its type and its printed form.
JUndefined == [type |-> "undefined", val |-> ""]
JNull == [type |-> "null", val |-> ""]
JStr(s) == [type |-> "string", val |-> s]
JNum(s) == [type |-> "number", val |-> s]
JBool(s) == [type |-> "boolean", val |-> s]
JObj == [type |-> "object", val |-> "{}"]
JTrue == JBool("true")
JFalse == JBool("false")
CastFailed == [type |-> "CastError", val |-> ""]

\* --------------------------------------------------------- schema (Task.ts)
\* text: { type: String }: Mongoose's String cast.
CastString(v) ==
    IF v.type \in {"undefined", "null", "string"} THEN v
    ELSE IF v.type \in {"number", "boolean"} THEN JStr(v.val)
    ELSE CastFailed

\* completed: { type: Boolean }: Mongoose's Boolean cast.
CastBoolean(v) ==
    IF v.type \in {"undefined", "null", "boolean"} THEN v
    ELSE IF v.type \in {"string", "number"} /\ v.val \in {"true", "1", "yes"} THEN JTrue
    ELSE IF v.type \in {"string", "number"} /\ v.val \in {"false", "0", "no"} THEN JFalse
    ELSE CastFailed

\* text: { required: true }: for a String path, a string of length > 0.
CheckRequired(v) == v.type = "string" /\ v.val # ""

\* completed: { default: false }.
CompletedDefault == JFalse

\* A path parameter: 0..MaxTasks are well-formed ObjectId strings (0 is one the
\* store never generates), Malformed is a string that is no ObjectId.
Malformed == 0 - 1
IsObjectId(id) == id >= 0

\* ----------------------------------------------------------- store calls
\* The outcome of a store call: the error it rejected with ("" when it resolved),
\* the documents it resolved with, and the collection and id counter after it.
Resolved(docs, st, nid) == [err |-> "", docs |-> docs, store |-> st, nextId |-> nid]
Rejected(e, st, nid) == [err |-> e, docs |-> {}, store |-> st, nextId |-> nid]

Ids(st) == {d._id : d \in st}

\* new Task({ text }): the schema casts the given paths and applies defaults.
NewTask(nid, text) ==
    [_id |-> nid, text |-> CastString(text), completed |-> CompletedDefault]

\* task.save(): validate, then insert.
SaveNoValidate(st, nid, doc) == Resolved({doc}, st \cup {doc}, nid + 1)
Save(st, nid, doc) ==
    IF doc.text = CastFailed \/ ~CheckRequired(doc.text)
    THEN Rejected("ValidationError", st, nid)
    ELSE Resolved({doc}, st \cup {doc}, nid + 1)

\* A filter is the set of its (path, value) conditions; {} matches everything.
Matches(d, filter) == \A c \in filter : d[c.path] = c.value

\* Task.find(filter).
Find(st, nid, filter) == Resolved({d \in st : Matches(d, filter)}, st, nid)

\* The $set Mongoose sends for the update { text, completed }: each value cast
\* by its path's type, keys whose value is undefined removed.
CastUpdate(update) ==
    [text |-> CastString(update.text), completed |-> CastBoolean(update.completed)]

ApplySetNullingUndefined(d, set) ==
    [_id |-> d._id,
     text |-> IF set.text = JUndefined THEN JNull ELSE set.text,
     completed |-> IF set.completed = JUndefined THEN JNull ELSE set.completed]
ApplySet(d, set) ==
    [_id |-> d._id,
     text |-> IF set.text = JUndefined THEN d.text ELSE set.text,
     completed |-> IF set.completed = JUndefined THEN d.completed ELSE set.completed]

\* Task.findByIdAndUpdate(id, { text, completed }, { new: true }).
FindByIdAndUpdateUpsert(st, nid, id, update) ==
    LET set == CastUpdate(update)
        new == ApplySet([_id |-> id, text |-> JUndefined, completed |-> CompletedDefault], set)
    IN  IF ~IsObjectId(id) \/ set.text = CastFailed \/ set.completed = CastFailed
        THEN Rejected("CastError", st, nid)
        ELSE IF id \in Ids(st)
        THEN LET old == CHOOSE d \in st : d._id = id
             IN  Resolved({ApplySet(old, set)}, (st \ {old}) \cup {ApplySet(old, set)}, nid)
        ELSE Resolved({new}, st \cup {new}, nid)
FindByIdAndUpdate(st, nid, id, update) ==
    LET set == CastUpdate(update)
    IN  IF ~IsObjectId(id) \/ set.text = CastFailed \/ set.completed = CastFailed
        THEN Rejected("CastError", st, nid)
        ELSE IF id \notin Ids(st)
        THEN Resolved({}, st, nid)
        ELSE LET old == CHOOSE d \in st : d._id = id
                 new == ApplySet(old, set)
             IN  Resolved({new}, (st \ {old}) \cup {new}, nid)

\* Task.findByIdAndDelete(id).
FindByIdAndDeleteKeeping(st, nid, id) ==
    IF ~IsObjectId(id) THEN Rejected("CastError", st, nid)
    ELSE Resolved({d \in st : d._id = id}, st, nid)
FindByIdAndDelete(st, nid, id) ==
    IF ~IsObjectId(id) THEN Rejected("CastError", st, nid)
    ELSE Resolved({d \in st : d._id = id}, {d \in st : d._id # id}, nid)

\* ------------------------------------------------- handlers (routes/tasks.ts)
\* A request: the route, the :id parameter, the status query and the body.
Request(op, id, status, text, completed) ==
    [op |-> op, id |-> id, status |-> status, text |-> text, completed |-> completed]
NoRequest == Request("", 0, JUndefined, JUndefined, JUndefined)

\* A response: res.status(code).json(body), body being { response, status, msg }
\* or { error }.
Json(code, docs, msg) == [status |-> code, response |-> docs, msg |-> msg, error |-> ""]
JsonError(code, error) == [status |-> code, response |-> {}, msg |-> "", error |-> error]

\* GET /: the filter built from req.query.status.
GetFilterIgnoringStatus(status) == {}
GetFilter(status) ==
    IF status = JStr("active") THEN {[path |-> "completed", value |-> JFalse]}
    ELSE IF status = JStr("completed") THEN {[path |-> "completed", value |-> JTrue]}
    ELSE {}

\* GET /filter: the filter built from req.query.status.
FilterFilter(status) ==
    IF status = JStr("active") THEN {[path |-> "completed", value |-> JFalse]}
    ELSE IF status = JStr("completed") THEN {[path |-> "completed", value |-> JTrue]}
    ELSE {}

\* The store call each handler awaits.
PostCallWholeBody(st, nid, r) ==
    Save(st, nid, [_id |-> nid, text |-> CastString(r.text),
                   completed |-> IF r.completed = JUndefined THEN CompletedDefault
                                 ELSE CastBoolean(r.completed)])
PostCall(st, nid, r) == Save(st, nid, NewTask(nid, r.text))
GetCall(st, nid, r) == Find(st, nid, GetFilter(r.status))
FilterCall(st, nid, r) == Find(st, nid, FilterFilter(r.status))
PutCall(st, nid, r) ==
    FindByIdAndUpdate(st, nid, r.id, [text |-> r.text, completed |-> r.completed])
DeleteCall(st, nid, r) == FindByIdAndDelete(st, nid, r.id)

StoreCall(st, nid, r) ==
    CASE r.op = "POST" -> PostCall(st, nid, r)
      [] r.op = "GET" -> GetCall(st, nid, r)
      [] r.op = "FILTER" -> FilterCall(st, nid, r)
      [] r.op = "PUT" -> PutCall(st, nid, r)
      [] r.op = "DELETE" -> DeleteCall(st, nid, r)

\* What each handler sends once its store call has settled with `err` and `docs`:
\* the sequence of its res.status().json() calls.
PostReply(err, docs) ==
    IF err # "" THEN <<JsonError(500, "Failed to create todo")>>
    ELSE <<Json(201, docs, "Todo Created")>>
GetReply(err, docs) ==
    IF err # "" THEN <<JsonError(500, "Failed to fetch todos")>>
    ELSE <<Json(200, docs, "success")>>
FilterReply(err, docs) ==
    IF err # "" THEN <<JsonError(500, "Failed to filter todos")>>
    ELSE <<Json(200, docs, "success")>>
PutReplyNoReturn(err, docs) ==
    IF err # "" THEN <<JsonError(500, "Failed to update todo")>>
    ELSE IF docs = {}
    THEN <<JsonError(404, "Todo not found"), JsonError(500, "Failed to update todo")>>
    ELSE <<Json(200, docs, "Todo Updated")>>
PutReply(err, docs) ==
    IF err # "" THEN <<JsonError(500, "Failed to update todo")>>
    ELSE IF docs = {} THEN <<JsonError(404, "Todo not found")>>
    ELSE <<Json(200, docs, "Todo Updated")>>
DeleteReply(err, docs) ==
    IF err # "" THEN <<JsonError(500, "Failed to delete todo")>>
    ELSE IF docs = {} THEN <<JsonError(404, "Todo not found")>>
    ELSE <<Json(200, docs, "Todo deleted successfully")>>

Reply(r, err, docs) ==
    CASE r.op = "POST" -> PostReply(err, docs)
      [] r.op = "GET" -> GetReply(err, docs)
      [] r.op = "FILTER" -> FilterReply(err, docs)
      [] r.op = "PUT" -> PutReply(err, docs)
      [] r.op = "DELETE" -> DeleteReply(err, docs)

\* ------------------------------------------------------------------ inputs
Slots == 1..MaxReq
IdParams == (0..MaxTasks) \cup {Malformed}
Statuses == {JUndefined, JStr("active"), JStr("completed"), JStr("done")}
Texts == {JUndefined, JNull, JStr(""), JStr("a"), JNum("7"), JObj}
Body(text, completed) == [text |-> text, completed |-> completed]
PutBodies ==
    {Body(JUndefined, JUndefined),
     Body(JUndefined, JTrue), Body(JUndefined, JFalse), Body(JUndefined, JNull),
     Body(JUndefined, JStr("yes")), Body(JUndefined, JStr("maybe")),
     Body(JStr("a"), JUndefined), Body(JStr(""), JUndefined), Body(JNull, JUndefined),
     Body(JObj, JUndefined), Body(JStr("a"), JTrue)}
ConcBodies == {Body(JUndefined, JTrue), Body(JStr("b"), JUndefined)}

\* ------------------------------------------------------------------- state
VARIABLES
    store,      \* the tasks collection: a set of documents
    nextId,     \* the next ObjectId the store generates
    pc,         \* per request slot: "idle", "await" (store call pending),
                \* "resume" (store call settled), "done" (answered)
    req,        \* per slot: the request being handled
    settled,    \* per slot: the error and documents the store call settled with
    res,        \* per slot: the responses sent for the request
    wasLive     \* per slot (history): the request's :id resolved to a stored
                \* task when the request arrived

vars == <<store, nextId, pc, req, settled, res, wasLive>>

Unsettled == [err |-> "", docs |-> {}]

Init ==
    /\ store = {}
    /\ nextId = 1
    /\ pc = [s \in Slots |-> "idle"]
    /\ req = [s \in Slots |-> NoRequest]
    /\ settled = [s \in Slots |-> Unsettled]
    /\ res = [s \in Slots |-> <<>>]
    /\ wasLive = [s \in Slots |-> FALSE]

\* ----------------------------------------------------------------- actions
\* A request arrives at a free slot; its handler runs up to its await.
Receive(s, r) ==
    /\ pc[s] \in {"idle", "done"}
    /\ pc' = [pc EXCEPT ![s] = "await"]
    /\ req' = [req EXCEPT ![s] = r]
    /\ settled' = [settled EXCEPT ![s] = Unsettled]
    /\ res' = [res EXCEPT ![s] = <<>>]
    /\ wasLive' = [wasLive EXCEPT ![s] = r.id \in Ids(store)]
    /\ UNCHANGED <<store, nextId>>

Post(s, texts, completeds) ==
    /\ nextId <= MaxTasks
    /\ \E t \in texts, c \in completeds :
          Receive(s, Request("POST", 0, JUndefined, t, c))

Get(s, statuses) ==
    \E q \in statuses : Receive(s, Request("GET", 0, q, JUndefined, JUndefined))

Filter(s, statuses) ==
    \E q \in statuses : Receive(s, Request("FILTER", 0, q, JUndefined, JUndefined))

Put(s, ids, bodies) ==
    \E id \in ids, b \in bodies :
        Receive(s, Request("PUT", id, JUndefined, b.text, b.completed))

Delete(s, ids) ==
    \E id \in ids : Receive(s, Request("DELETE", id, JUndefined, JUndefined, JUndefined))

\* The pending store call is executed, atomically, and settles.
StoreSettles(s) ==
    /\ pc[s] = "await"
    /\ LET out == StoreCall(store, nextId, req[s])
       IN  /\ store' = out.store
           /\ nextId' = out.nextId
           /\ settled' = [settled EXCEPT ![s] = [err |-> out.err, docs |-> out.docs]]
    /\ pc' = [pc EXCEPT ![s] = "resume"]
    /\ UNCHANGED <<req, res, wasLive>>

\* The pending store call rejects without reaching the collection.
StoreFails(s) ==
    /\ pc[s] = "await"
    /\ settled' = [settled EXCEPT ![s] = [err |-> "MongoNetworkError", docs |-> {}]]
    /\ pc' = [pc EXCEPT ![s] = "resume"]
    /\ UNCHANGED <<store, nextId, req, res, wasLive>>

\* The handler resumes after its await and answers.
Respond(s) ==
    /\ pc[s] = "resume"
    /\ res' = [res EXCEPT ![s] = Reply(req[s], settled[s].err, settled[s].docs)]
    /\ pc' = [pc EXCEPT ![s] = "done"]
    /\ UNCHANGED <<store, nextId, req, settled, wasLive>>

\* One client: requests are handled one after the other.
Next ==
    \/ Post(1, Texts, {JUndefined, JTrue})
    \/ Get(1, Statuses)
    \/ Filter(1, Statuses)
    \/ Put(1, IdParams, PutBodies)
    \/ Delete(1, IdParams)
    \/ StoreSettles(1)
    \/ StoreFails(1)
    \/ Respond(1)

Spec == Init /\ [][Next]_vars

\* Concurrent clients: up to MaxReq requests in flight, interleaved at their awaits.
ConcIds == 1..1
NextConc ==
    \E s \in Slots :
        \/ Post(s, {JStr("a")}, {JUndefined})
        \/ Put(s, ConcIds, ConcBodies)
        \/ Delete(s, ConcIds)
        \/ StoreSettles(s)
        \/ StoreFails(s)
        \/ Respond(s)

SpecConc == Init /\ [][NextConc]_vars

\* ------------------------------------------------------------------ claims
ValidText(t) == t.type = "string" /\ t.val # ""
Settling(s) == pc[s] = "await" /\ pc'[s] = "resume"
Answered(s, op) == pc[s] = "done" /\ req[s].op = op
Answer(s) == res[s][1]
ListAll(st) == GetCall(st, nextId, Request("GET", 0, JUndefined, JUndefined, JUndefined)).docs
ListBy(st, q) == GetCall(st, nextId, Request("GET", 0, JStr(q), JUndefined, JUndefined)).docs
Generated == 1..(nextId - 1)

\* C1: a POST whose text is a non-empty string and that is answered 201 has
\* inserted exactly one new task with that text and completed = false, whatever
\* else the body carries; GET / lists it; and it stays as inserted until a PUT
\* or a DELETE of its id reaches the store.
C1_Answered ==
    \A s \in Slots :
        (Answered(s, "POST") /\ ValidText(req[s].text) /\ Answer(s).status = 201) =>
            \E d \in ListAll(store) :
                /\ d.text = req[s].text
                /\ d.completed = JFalse
                /\ Answer(s).response = {d}
C1_Inserts ==
    \A s \in Slots :
        (Settling(s) /\ req[s].op = "POST" /\ ValidText(req[s].text)
            /\ settled'[s].err = "") =>
            \E d \in store' :
                /\ d._id \notin Ids(store)
                /\ store' = store \cup {d}
                /\ d.text = req[s].text
                /\ d.completed = JFalse
C1_Frame ==
    \A d \in store :
        d \notin store' =>
            \E s \in Slots :
                Settling(s) /\ req[s].op \in {"PUT", "DELETE"} /\ req[s].id = d._id
C1_PostThenGet == [](C1_Answered) /\ [][C1_Inserts /\ C1_Frame]_vars
C1_Witness ==
    \E s \in Slots :
        /\ Answered(s, "POST") /\ req[s].text = JStr("a") /\ req[s].completed = JTrue
        /\ Answer(s).status = 201
        /\ Cardinality(store) = 2

\* C2: in every reachable store, status=active lists exactly the tasks with
\* completed = false, status=completed exactly those with completed = true, any
\* other or no status lists every task, and that list is the union of the two.
C2_FilterPartition ==
    /\ ListBy(store, "active") = {d \in store : d.completed = JFalse}
    /\ ListBy(store, "completed") = {d \in store : d.completed = JTrue}
    /\ ListBy(store, "done") = store
    /\ ListAll(store) = store
    /\ ListAll(store) = ListBy(store, "active") \cup ListBy(store, "completed")

\* C3: on the same store and the same status, GET /filter and GET / give the
\* same documents and the same status code, whether the store call resolves or
\* rejects.
C3_RoutesAgree ==
    \A q \in Statuses :
        LET r == Request("", 0, q, JUndefined, JUndefined)
            a == GetCall(store, nextId, r)
            b == FilterCall(store, nextId, r)
        IN  /\ a.docs = b.docs
            /\ a.err = b.err
            /\ GetReply(a.err, a.docs)[1].status = FilterReply(b.err, b.docs)[1].status
            /\ GetReply(a.err, a.docs)[1].response = FilterReply(b.err, b.docs)[1].response
            /\ GetReply("MongoNetworkError", {})[1].status
                   = FilterReply("MongoNetworkError", {})[1].status
C3_Witness ==
    \E s \in Slots :
        /\ Answered(s, "FILTER") /\ req[s].status = JStr("active")
        /\ Answer(s).status = 200
        /\ Answer(s).response # {}
        /\ Answer(s).response # store

\* C4: a PUT whose id resolves to no stored task is answered 404 with an error
\* payload, whatever the id (well-formed or not) and whatever the body, unless
\* the store is unreachable.
C4_PutUnknownIs404 ==
    \A s \in Slots :
        (Answered(s, "PUT") /\ req[s].id \notin Ids(store)
            /\ settled[s].err # "MongoNetworkError") =>
            /\ Answer(s).status = 404
            /\ Answer(s).error # ""

\* C5: on an existing task, PUT { completed: true } is answered 200 with the
\* task, sets its completed to true and changes nothing else in the store; a
\* PUT without completed leaves every task's completed as it was; GET / then
\* lists the task as updated.
C5_Answered ==
    \A s \in Slots :
        (Answered(s, "PUT") /\ req[s].text = JUndefined /\ req[s].completed = JTrue
            /\ req[s].id \in Ids(store) /\ settled[s].err # "MongoNetworkError") =>
            \E d \in ListAll(store) :
                /\ d._id = req[s].id
                /\ d.completed = JTrue
                /\ Answer(s).status = 200
                /\ Answer(s).response = {d}
C5_Updates ==
    \A s \in Slots :
        (Settling(s) /\ req[s].op = "PUT" /\ settled'[s].err = ""
            /\ req[s].id \in Ids(store)) =>
            LET old == CHOOSE d \in store : d._id = req[s].id
            IN  /\ (req[s].text = JUndefined /\ req[s].completed = JTrue) =>
                    store' = (store \ {old}) \cup {[old EXCEPT !.completed = JTrue]}
                /\ (req[s].completed = JUndefined) =>
                    /\ \A d \in store' : d._id = old._id => d.completed = old.completed
                    /\ {d \in store' : d._id # old._id} = store \ {old}
                    /\ Ids(store') = Ids(store)
C5_PartialUpdate == [](C5_Answered) /\ [][C5_Updates]_vars
C5_Witness ==
    \E s \in Slots :
        /\ Answered(s, "PUT") /\ req[s].text = JUndefined /\ req[s].completed = JTrue
        /\ Answer(s).status = 200
        /\ Cardinality(store) = 2
        /\ \E d \in store : d._id = req[s].id /\ d.text = JStr("7")

\* C6: DELETE of an existing task is answered 200 and removes that task and no
\* other; GET / no longer lists it; an id the store generated and that is no
\* longer stored never resolves again; and a later DELETE or PUT of it whose
\* store call resolves is answered 404.
C6_Answered ==
    \A s \in Slots :
        /\ (Answered(s, "DELETE") /\ wasLive[s] /\ settled[s].err # "MongoNetworkError") =>
                /\ Answer(s).status = 200
                /\ \A d \in ListAll(store) : d._id # req[s].id
        /\ (pc[s] = "done" /\ req[s].op \in {"DELETE", "PUT"} /\ ~wasLive[s]
                /\ req[s].id \in Generated /\ settled[s].err = "") =>
                Answer(s).status = 404
C6_Removes ==
    \A s \in Slots :
        (Settling(s) /\ req[s].op = "DELETE" /\ settled'[s].err = ""
            /\ req[s].id \in Ids(store)) =>
            LET old == CHOOSE d \in store : d._id = req[s].id
            IN  store' = store \ {old} /\ settled'[s].docs = {old}
C6_NeverBack ==
    /\ nextId' >= nextId
    /\ \A i \in Generated : i \notin Ids(store) => i \notin Ids(store')
C7_Answered ==
    \A s \in Slots :
        (Answered(s, "POST") /\ req[s].text = JUndefined) => Answer(s).status = 500
C7_StoreKept ==
    \A s \in Slots :
        (pc'[s] # pc[s] /\ req'[s].op = "POST" /\ req'[s].text = JUndefined) =>
            store' = store /\ nextId' = nextId
C7_PostWithoutText == [](C7_Answered) /\ [][C7_StoreKept]_vars
C7_Witness ==
    \E s \in Slots :
        /\ Answered(s, "POST") /\ req[s].text = JUndefined
        /\ settled[s].err = "ValidationError"
        /\ store # {}

\* C8: every stored task has an id, a text that is not null and a boolean
\* completed.
C8_TaskShape ==
    \A d \in store :
        /\ d._id \in Generated
        /\ d.text.type \notin {"null", "undefined"}
        /\ d.completed.type = "boolean"

\* C9: every answered request got exactly one response, with status 200, 201,
\* 404 or 500, and none before it is answered; a request whose store call
\* rejected is answered 500 with the handler's fixed error message and nothing
\* of the cause; the rejected call leaves the store as it was; and the server
\* accepts the next request.
GenericErrors ==
    {"Failed to create todo", "Failed to fetch todos", "Failed to filter todos",
     "Failed to update todo", "Failed to delete todo"}
C9_Answered ==
    \A s \in Slots :
        /\ pc[s] = "done" =>
                /\ Len(res[s]) = 1
                /\ Answer(s).status \in {200, 201, 404, 500}
                /\ ENABLED Get(s, Statuses)
        /\ pc[s] # "done" => res[s] = <<>>
        /\ (pc[s] = "done" /\ settled[s].err # "") =>
                /\ Answer(s).status = 500
                /\ Answer(s).error \in GenericErrors
                /\ Answer(s).response = {}
                /\ Answer(s).msg = ""
C9_StoreKept ==
    \A s \in Slots :
        (Settling(s) /\ settled'[s].err # "") => store' = store /\ nextId' = nextId
C9_FailureIs500 == [](C9_Answered) /\ [][C9_StoreKept]_vars
C9_Witness ==
    \E s \in Slots :
        /\ Answered(s, "PUT") /\ settled[s].err = "MongoNetworkError"
        /\ req[s].id \in Ids(store)
        /\ Answer(s).status = 500

\* C10: when every in-flight request is a DELETE of the same task, all arrived
\* while it was stored and none hit a store failure, exactly one is answered 200
\* and the others 404; a PUT racing with a DELETE that removed the task is
\* answered 200 or 404, and the task is not stored once both are answered; a PUT
\* never adds a task.
C10_Answered ==
    /\ \A i \in Generated :
        (\A s \in Slots :
            Answered(s, "DELETE") /\ req[s].id = i /\ wasLive[s] /\ settled[s].err = "") =>
            /\ Cardinality({s \in Slots : Answer(s).status = 200}) = 1
            /\ \A s \in Slots : Answer(s).status \in {200, 404}
    /\ \A s, t \in Slots :
        (Answered(s, "PUT") /\ Answered(t, "DELETE") /\ req[s].id = req[t].id
            /\ wasLive[s] /\ wasLive[t] /\ settled[s].err = ""
            /\ Answer(t).status = 200) =>
            /\ Answer(s).status \in {200, 404}
            /\ req[s].id \notin Ids(store)
C10_PutAddsNothing ==
    \A s \in Slots :
        (Settling(s) /\ req[s].op = "PUT") => Ids(store') = Ids(store)
C10_Races == [](C10_Answered) /\ [][C10_PutAddsNothing]_vars
C10_Witness ==
    /\ \A s \in Slots :
        Answered(s, "DELETE") /\ req[s].id = 1 /\ wasLive[s] /\ settled[s].err = ""
    /\ \E s \in Slots : Answer(s).status = 404

====
